---- MODULE Spec2Model ----
(***************************************************************************)
(* TrailShare: the tracks table, the tRPC router of server/src/index.ts    *)
(* and the five handlers behind it.                                        *)
(*                                                                         *)
(* Handlers are taken as the source has them.  createTrack, getTracks and  *)
(* deleteTrack are implemented against the table (createTrack also has a   *)
(* placeholder body, handlers/create_track.ts; its implementation is the   *)
(* one modelled).  getTrack and updateTrack exist in the source only as    *)
(* placeholder bodies that build their answer from the input and fixed     *)
(* literals, without touching the table; they are modelled as such.        *)
(*                                                                         *)
(* A nullable string is <<>> (null) or <<s>>.  An optional field of an     *)
(* input is a field that may be missing from the record's DOMAIN.          *)
(***************************************************************************)
EXTENDS Integers, Sequences, FiniteSets, TLC

\* Bounds of the model.
MaxSeq == 2
MaxTime == 1

\* z.string().max(200) of the title.
MaxTitleLen == 200

\* Bound of the model: how many deleteTrack calls run statement by statement.
MaxCalls == 2

\* Bounds of the model: how many uploads and how many deletes the user of
\* the client starts.
MaxSubmits == 1
MaxDeletes == 2

\* Largest value of a PostgreSQL integer column (file_size).
PgIntegerMax == 2147483647

VARIABLES
    tracks,          \* the rows of tracksTable
    tracks_id_seq,   \* last value handed out by the serial column's sequence
    now,             \* the clock (new Date(), SQL now())
    last,            \* the last RPC: procedure, input, response
    before,          \* the rows of tracksTable when that RPC started
    created_ids,     \* the ids createTrack has returned, in order
    calls,           \* deleteTrack calls running statement by statement
    app_tracks,      \* App: const [tracks, setTracks]
    selectedTrack,   \* App: Track | null
    isLoading,       \* App: passed to TrackUpload with its setter
    backendError,    \* App
    activeTab,       \* App: 'browse' | 'upload' | 'map'
    deletingTrackId, \* TrackList: number | null
    formData,        \* TrackUpload: title, description, file
    uploadStatus,    \* TrackUpload: 'idle' | 'success' | 'error'
    errorMessage,    \* TrackUpload
    requests         \* the client's asynchronous functions, started so far

client_vars ==
    <<app_tracks, selectedTrack, isLoading, backendError, activeTab,
      deletingTrackId, formData, uploadStatus, errorMessage, requests>>

vars ==
    <<tracks, tracks_id_seq, now, last, before, created_ids, calls,
      client_vars>>

Null == <<>>
Some(s) == <<s>>

Has(input, field) == field \in DOMAIN input

\* A JavaScript number, which may exceed what an integer column (and a value
\* of this model) holds: hi * Limb + lo, with lo in 0 .. Limb - 1, plus
\* frac tenths when it has a field frac.
Limb == 256 * 256
Number(n) == [hi |-> n \div Limb, lo |-> n % Limb]
IsInt(x) ==
    /\ x.hi \in Int
    /\ x.lo \in 0 .. (Limb - 1)
    /\ Has(x, "frac") => x.frac = 0
IsPositive(x) == x.hi > 0 \/ (x.hi = 0 /\ x.lo > 0)

\* The number fits a PostgreSQL integer column / its value in the column.
FitsInteger(x) ==
    /\ x.hi <= PgIntegerMax \div Limb
    /\ x.hi >= -(PgIntegerMax \div Limb) - 1
ToInteger(x) == x.hi * Limb + x.lo

----------------------------------------------------------------------------
\* Requests a client can send: the tests' inputs, and inputs on the far side
\* of each constraint of the schemas.

TrackA ==
    [title |-> "Track 1", description |-> Some("First track"),
     file_name |-> "track1.gpx", file_type |-> "gpx", file_size |-> Number(1024),
     track_data |-> "<gpx>track1</gpx>"]

TrackB ==
    [title |-> "Track with null description", description |-> Null,
     file_name |-> "null_desc_track.kml", file_type |-> "kml",
     file_size |-> Number(2048), track_data |-> "<kml>...</kml>"]

MinimalTrack ==
    [title |-> "Minimal Track", description |-> Null,
     file_name |-> "minimal.gpx", file_type |-> "gpx", file_size |-> Number(1),
     track_data |-> "x"]

\* Every constraint of createTrackInputSchema at its lower bound.
LowerBoundTrack ==
    [title |-> "x", description |-> Null,
     file_name |-> "m", file_type |-> "gpx", file_size |-> Number(1),
     track_data |-> "x"]

\* A title of MaxTitleLen + 1 characters.
LongTitle ==
    "01234567890123456789012345678901234567890123456789012345678901234567890123456789012345678901234567890123456789012345678901234567890123456789012345678901234567890123456789012345678901234567890123456789x"

CreateRequests ==
    {TrackA, TrackB, MinimalTrack, LowerBoundTrack,
     [TrackA EXCEPT !.title = ""],
     [TrackA EXCEPT !.title = LongTitle],
     [TrackA EXCEPT !.file_size = [hi |-> 0, lo |-> 1, frac |-> 5]],
     [TrackA EXCEPT !.file_name = ""],
     [TrackA EXCEPT !.file_type = "fit"],
     [TrackA EXCEPT !.file_size = Number(0)],
     [TrackA EXCEPT !.file_size = Number(-1)],
     [TrackA EXCEPT !.file_size = [hi |-> (PgIntegerMax \div Limb) + 1, lo |-> 0]],
     [TrackB EXCEPT !.track_data = ""]}

RequestIds == 0 .. MaxSeq

UpdateRequests ==
    UNION {
        {[id |-> i],
         [id |-> i, title |-> "New Track Title"],
         [id |-> i, title |-> ""],
         [id |-> i, description |-> Null],
         [id |-> i, description |-> Some("New description")],
         [id |-> i, title |-> "New Track Title", description |-> Some("New description")]}
        : i \in RequestIds }

----------------------------------------------------------------------------
\* Validation layer (zod schemas).

FileTypes == {"gpx", "kml"}

\* Mutant of createTrackInputSchema: file_size is any integer.
createTrackInputSchema_AnySize(input) ==
    /\ Len(input.title) >= 1
    /\ Len(input.title) <= MaxTitleLen
    /\ Len(input.description) <= 1
    /\ Len(input.file_name) >= 1
    /\ input.file_type \in FileTypes
    /\ IsInt(input.file_size)
    /\ Len(input.track_data) >= 1

\* Mutant of createTrackInputSchema: file_type is any string.
createTrackInputSchema_AnyFileType(input) ==
    /\ Len(input.title) >= 1
    /\ Len(input.title) <= MaxTitleLen
    /\ Len(input.description) <= 1
    /\ Len(input.file_name) >= 1
    /\ IsInt(input.file_size)
    /\ IsPositive(input.file_size)
    /\ Len(input.track_data) >= 1

\* Mutant of createTrackInputSchema: title is any string.
createTrackInputSchema_AnyTitle(input) ==
    /\ Len(input.description) <= 1
    /\ Len(input.file_name) >= 1
    /\ input.file_type \in FileTypes
    /\ IsInt(input.file_size)
    /\ IsPositive(input.file_size)
    /\ Len(input.track_data) >= 1

createTrackInputSchema(input) ==
    /\ Len(input.title) >= 1
    /\ Len(input.title) <= MaxTitleLen
    /\ Len(input.description) <= 1
    /\ Len(input.file_name) >= 1
    /\ input.file_type \in FileTypes
    /\ IsInt(input.file_size)
    /\ IsPositive(input.file_size)
    /\ Len(input.track_data) >= 1

updateTrackInputSchema(input) ==
    /\ input.id \in Int
    /\ Has(input, "title") =>
          /\ Len(input.title) >= 1
          /\ Len(input.title) <= MaxTitleLen
    /\ Has(input, "description") => Len(input.description) <= 1

getTrackInputSchema(input) == input.id \in Int

deleteTrackInputSchema(input) == input.id \in Int

----------------------------------------------------------------------------
\* Store operations (drizzle statements on tracksTable).

\* Mutant of InsertReturning: the id is a fixed number, not the sequence's.
InsertReturning_FixedId(values) ==
    [id          |-> 0,
     title       |-> values.title,
     description |-> values.description,
     file_name   |-> values.file_name,
     file_type   |-> values.file_type,
     file_size   |-> ToInteger(values.file_size),
     track_data  |-> values.track_data,
     created_at  |-> now,
     updated_at  |-> now]

\* Mutant of InsertReturning: the id is one more than the number of rows.
InsertReturning_CountId(values) ==
    [id          |-> Cardinality(tracks) + 1,
     title       |-> values.title,
     description |-> values.description,
     file_name   |-> values.file_name,
     file_type   |-> values.file_type,
     file_size   |-> ToInteger(values.file_size),
     track_data  |-> values.track_data,
     created_at  |-> now,
     updated_at  |-> now]

\* Mutant of InsertReturning: updated_at is a moment before the insert.
InsertReturning_StaleUpdatedAt(values) ==
    [id          |-> tracks_id_seq + 1,
     title       |-> values.title,
     description |-> values.description,
     file_name   |-> values.file_name,
     file_type   |-> values.file_type,
     file_size   |-> ToInteger(values.file_size),
     track_data  |-> values.track_data,
     created_at  |-> now,
     updated_at  |-> now - 1]

\* db.insert(tracksTable).values(values).returning(): id from the serial
\* sequence, created_at and updated_at from defaultNow().
InsertReturning(values) ==
    [id          |-> tracks_id_seq + 1,
     title       |-> values.title,
     description |-> values.description,
     file_name   |-> values.file_name,
     file_type   |-> values.file_type,
     file_size   |-> ToInteger(values.file_size),
     track_data  |-> values.track_data,
     created_at  |-> now,
     updated_at  |-> now]

\* db.select().from(tracksTable).where(eq(tracksTable.id, id))
SelectById(id) == {row \in tracks : row.id = id}

\* Mutant of DeleteReturning: the where clause is missing.
DeleteReturning_All(id) == tracks

\* db.delete(tracksTable).where(eq(tracksTable.id, id)).returning()
DeleteReturning(id) == {row \in tracks : row.id = id}

\* Mutant of SelectAll: a filter on the file type slipped into the query.
SelectAll_GpxOnly ==
    LET gpx == {row \in tracks : row.file_type = "gpx"} IN
    {rows \in [1 .. Cardinality(gpx) -> gpx] :
        \A row \in gpx : \E i \in 1 .. Cardinality(gpx) : rows[i] = row}

\* db.select().from(tracksTable): every row, in an order the store chooses.
SelectAll ==
    {rows \in [1 .. Cardinality(tracks) -> tracks] :
        \A row \in tracks : \E i \in 1 .. Cardinality(tracks) : rows[i] = row}

----------------------------------------------------------------------------
\* Responses.

TrackResponse(track) == [kind |-> "track", track |-> track]
NullResponse == [kind |-> "null"]
ErrorResponse(message) == [kind |-> "error", message |-> message]
ValidationError == [kind |-> "validation_error"]

\* Template literals, as the sequence of their literal parts and substitutions.
NotFoundMessage(id) == <<"Track with ID ", ToString(id), " not found">>
FailedMessage(id) == <<"Failed to delete track with ID ", ToString(id)>>
DeletedMessage(id) ==
    <<"Track with ID ", ToString(id), " has been deleted successfully">>

\* The store's error for a value that does not fit an integer column.
OutOfRangeMessage == <<"value out of range for type integer">>

Rpc(procedure, input, response) ==
    [procedure |-> procedure, input |-> input, response |-> response]

\* A procedure whose input the schema refuses: the handler is not called.
Rejected(procedure, input) ==
    /\ last' = Rpc(procedure, input, ValidationError)
    /\ before' = tracks
    /\ UNCHANGED <<tracks, tracks_id_seq, now, created_ids>>

----------------------------------------------------------------------------
Init ==
    /\ tracks = {}
    /\ tracks_id_seq = 0
    /\ now = 0
    /\ last = [procedure |-> "none"]
    /\ before = {}
    /\ created_ids = <<>>
    /\ calls = <<>>
    /\ app_tracks = <<>>
    /\ selectedTrack = Null
    /\ isLoading = FALSE
    /\ backendError = FALSE
    /\ activeTab = "browse"
    /\ deletingTrackId = Null
    /\ formData = [title |-> "", description |-> Null, file |-> Null]
    /\ uploadStatus = "idle"
    /\ errorMessage = ""
    /\ requests = <<>>

\* A step of the server alone: no statement-level call and no client moves.
ServerAlone == UNCHANGED <<calls, client_vars>>

Tick ==
    /\ now < MaxTime
    /\ now' = now + 1
    /\ UNCHANGED <<tracks, tracks_id_seq, last, before, created_ids>>

healthcheck ==
    /\ last' = Rpc("healthcheck", [none |-> TRUE],
                   [kind |-> "health", status |-> "ok", timestamp |-> now])
    /\ before' = tracks
    /\ UNCHANGED <<tracks, tracks_id_seq, now, created_ids>>

\* The insert statement fails, before a row or an id is made, when a value
\* does not fit its column; the handler logs the error and rethrows it.
InsertFails(values) == ~FitsInteger(values.file_size)

\* Mutant of createTrack: the answer is built from the input and nothing is
\* inserted.
createTrack_NoInsert(input) ==
    IF InsertFails(input)
    THEN /\ last' = Rpc("createTrack", input,
                        ErrorResponse(OutOfRangeMessage))
         /\ before' = tracks
         /\ UNCHANGED <<tracks, tracks_id_seq, now, created_ids>>
    ELSE /\ tracks_id_seq < MaxSeq
         /\ last' = Rpc("createTrack", input,
                        TrackResponse(
                            [id          |-> 0,
                             title       |-> input.title,
                             description |-> input.description,
                             file_name   |-> input.file_name,
                             file_type   |-> input.file_type,
                             file_size   |-> ToInteger(input.file_size),
                             track_data  |-> input.track_data,
                             created_at  |-> now,
                             updated_at  |-> now]))
         /\ before' = tracks
         /\ created_ids' = Append(created_ids, 0)
         /\ tracks_id_seq' = tracks_id_seq + 1
         /\ UNCHANGED <<tracks, now>>

createTrack(input) ==
    IF InsertFails(input)
    THEN /\ last' = Rpc("createTrack", input,
                        ErrorResponse(OutOfRangeMessage))
         /\ before' = tracks
         /\ UNCHANGED <<tracks, tracks_id_seq, now, created_ids>>
    ELSE LET track == InsertReturning(input) IN
         /\ tracks_id_seq < MaxSeq
         /\ tracks' = tracks \cup {track}
         /\ tracks_id_seq' = tracks_id_seq + 1
         /\ last' = Rpc("createTrack", input, TrackResponse(track))
         /\ before' = tracks
         /\ created_ids' = Append(created_ids, track.id)
         /\ UNCHANGED now

getTracks ==
    \E rows \in SelectAll :
        /\ last' = Rpc("getTracks", [none |-> TRUE],
                       [kind |-> "tracks", tracks |-> rows])
        /\ before' = tracks
        /\ UNCHANGED <<tracks, tracks_id_seq, now, created_ids>>

\* Mutant of getTrack: reading a row stamps it with the time of the read.
getTrack_Touching(input) ==
    /\ tracks' = {IF row.id = input.id
                  THEN [row EXCEPT !.updated_at = now]
                  ELSE row : row \in tracks}
    /\ last' = Rpc("getTrack", input,
                   IF SelectById(input.id) = {}
                   THEN NullResponse
                   ELSE TrackResponse(CHOOSE row \in SelectById(input.id) : TRUE))
    /\ before' = tracks
    /\ UNCHANGED <<tracks_id_seq, now, created_ids>>

\* Placeholder body of handlers/get_track.ts: no store access.
getTrack(input) ==
    /\ last' = Rpc("getTrack", input,
                   TrackResponse(
                       [id          |-> input.id,
                        title       |-> "Placeholder Track",
                        description |-> Some("This is a placeholder track"),
                        file_name   |-> "sample.gpx",
                        file_type   |-> "gpx",
                        file_size   |-> 1024,
                        track_data  |-> "<gpx>...</gpx>",
                        created_at  |-> now,
                        updated_at  |-> now]))
    /\ before' = tracks
    /\ UNCHANGED <<tracks, tracks_id_seq, now, created_ids>>

\* input.title || 'Updated Track Title': undefined and '' are both falsy.
UpdatedTitle(input) ==
    IF Has(input, "title") /\ input.title # ""
    THEN input.title
    ELSE "Updated Track Title"

\* input.description !== undefined ? input.description : 'Updated description'
UpdatedDescription(input) ==
    IF Has(input, "description")
    THEN input.description
    ELSE Some("Updated description")

\* Placeholder body of handlers/update_track.ts: no store access.
updateTrack(input) ==
    /\ last' = Rpc("updateTrack", input,
                   TrackResponse(
                       [id          |-> input.id,
                        title       |-> UpdatedTitle(input),
                        description |-> UpdatedDescription(input),
                        file_name   |-> "sample.gpx",
                        file_type   |-> "gpx",
                        file_size   |-> 1024,
                        track_data  |-> "<gpx>...</gpx>",
                        created_at  |-> now,
                        updated_at  |-> now]))
    /\ before' = tracks
    /\ UNCHANGED <<tracks, tracks_id_seq, now, created_ids>>

\* Mutant of DeleteOutcome: the check of the delete statement's result is
\* missing.
DeleteOutcome_ResultUnchecked(id, existingTrack, result) ==
    IF existingTrack = {} THEN ErrorResponse(NotFoundMessage(id))
    ELSE [kind |-> "success", success |-> TRUE, message |-> DeletedMessage(id)]

\* Mutant of DeleteOutcome: the existence check is skipped.
DeleteOutcome_Unchecked(id, existingTrack, result) ==
    IF result = {} THEN ErrorResponse(FailedMessage(id))
    ELSE [kind |-> "success", success |-> TRUE, message |-> DeletedMessage(id)]

\* The response of deleteTrack, from what its two statements returned.
DeleteOutcome(id, existingTrack, result) ==
    IF existingTrack = {} THEN ErrorResponse(NotFoundMessage(id))
    ELSE IF result = {} THEN ErrorResponse(FailedMessage(id))
    ELSE [kind |-> "success", success |-> TRUE, message |-> DeletedMessage(id)]

\* The rows left by deleteTrack: the delete statement runs only after the
\* existence check has found a row.
DeleteRemaining(id, existingTrack, result) ==
    IF existingTrack = {} THEN tracks ELSE tracks \ result

deleteTrack(input) ==
    LET existingTrack == SelectById(input.id)
        result == DeleteReturning(input.id)
    IN
    /\ tracks' = DeleteRemaining(input.id, existingTrack, result)
    /\ last' = Rpc("deleteTrack", input,
                   DeleteOutcome(input.id, existingTrack, result))
    /\ before' = tracks
    /\ UNCHANGED <<tracks_id_seq, now, created_ids>>

----------------------------------------------------------------------------
\* appRouter: each procedure validates its input, then calls its handler.

createTrackProcedure ==
    \E input \in CreateRequests :
        IF createTrackInputSchema(input)
        THEN createTrack(input)
        ELSE Rejected("createTrack", input)

getTracksProcedure == getTracks

getTrackProcedure ==
    \E id \in RequestIds :
        IF getTrackInputSchema([id |-> id])
        THEN getTrack([id |-> id])
        ELSE Rejected("getTrack", [id |-> id])

updateTrackProcedure ==
    \E input \in UpdateRequests :
        IF updateTrackInputSchema(input)
        THEN updateTrack(input)
        ELSE Rejected("updateTrack", input)

deleteTrackProcedure ==
    \E id \in RequestIds :
        IF deleteTrackInputSchema([id |-> id])
        THEN deleteTrack([id |-> id])
        ELSE Rejected("deleteTrack", [id |-> id])

Next ==
    \/ Tick /\ ServerAlone
    \/ healthcheck /\ ServerAlone
    \/ createTrackProcedure /\ ServerAlone
    \/ getTracksProcedure /\ ServerAlone
    \/ getTrackProcedure /\ ServerAlone
    \/ updateTrackProcedure /\ ServerAlone
    \/ deleteTrackProcedure /\ ServerAlone

Spec == Init /\ [][Next]_vars

----------------------------------------------------------------------------
\* The handlers when a statement sent to the store fails.

\* Errors the database driver throws from execute().
StoreErrors ==
    {<<"Connection terminated unexpectedly">>,
     <<"relation \"tracks\" does not exist">>}

\* Mutant of Rethrow: the failure is swallowed and a sentinel is returned.
Rethrow_Swallowed(error) == NullResponse

\* catch (error) { console.error(..., error); throw error; }
Rethrow(error) == ErrorResponse(error)

\* An RPC whose handler's store statement threw: the statements the handler
\* issued, in order, and the error the last of them threw.
FailedRpc(procedure, input, statements, error) ==
    [procedure |-> procedure, input |-> input, response |-> Rethrow(error),
     statements |-> statements, thrown |-> error]

createTrackStoreFails ==
    \E input \in CreateRequests : \E error \in StoreErrors :
        /\ createTrackInputSchema(input)
        /\ last' = FailedRpc("createTrack", input, <<"insert">>, error)
        /\ before' = tracks
        /\ UNCHANGED <<tracks, tracks_id_seq, now, created_ids>>

getTracksStoreFails ==
    \E error \in StoreErrors :
        /\ last' = FailedRpc("getTracks", [none |-> TRUE], <<"select">>, error)
        /\ before' = tracks
        /\ UNCHANGED <<tracks, tracks_id_seq, now, created_ids>>

\* The existence check of deleteTrack fails.
deleteTrackSelectFails ==
    \E id \in RequestIds : \E error \in StoreErrors :
        /\ deleteTrackInputSchema([id |-> id])
        /\ last' = FailedRpc("deleteTrack", [id |-> id], <<"select">>, error)
        /\ before' = tracks
        /\ UNCHANGED <<tracks, tracks_id_seq, now, created_ids>>

\* The existence check of deleteTrack found the row and the delete statement
\* fails.
deleteTrackDeleteFails ==
    \E id \in RequestIds : \E error \in StoreErrors :
        /\ deleteTrackInputSchema([id |-> id])
        /\ SelectById(id) # {}
        /\ last' = FailedRpc("deleteTrack", [id |-> id],
                             <<"select", "delete">>, error)
        /\ before' = tracks
        /\ UNCHANGED <<tracks, tracks_id_seq, now, created_ids>>

FaultNext ==
    \/ Next
    \/ createTrackStoreFails /\ ServerAlone
    \/ getTracksStoreFails /\ ServerAlone
    \/ deleteTrackSelectFails /\ ServerAlone
    \/ deleteTrackDeleteFails /\ ServerAlone

FaultSpec == Init /\ [][FaultNext]_vars

----------------------------------------------------------------------------
\* Requests whose id is a number that is not an integer. The id 1.5 is
\* written id |-> 1, id_frac |-> 5 (tenths); z.number() looks at neither
\* part, so the schemas above take it like any other number.

NonIntegerId == [id |-> 1, id_frac |-> 5]

\* The store's error for a comparison value an integer column cannot take.
InvalidIntegerMessage == <<"invalid input syntax for type integer: \"1.5\"">>

getTrackNumberId ==
    IF getTrackInputSchema(NonIntegerId)
    THEN getTrack(NonIntegerId)
    ELSE Rejected("getTrack", NonIntegerId)

updateTrackNumberId ==
    \E input \in {NonIntegerId,
                  [id |-> 1, id_frac |-> 5, title |-> "New Track Title"]} :
        IF updateTrackInputSchema(input)
        THEN updateTrack(input)
        ELSE Rejected("updateTrack", input)

\* deleteTrack reaches its existence check, whose where clause compares the
\* integer column id with 1.5: the statement fails and the error is rethrown.
deleteTrackNumberId ==
    IF deleteTrackInputSchema(NonIntegerId)
    THEN /\ last' = FailedRpc("deleteTrack", NonIntegerId, <<"select">>,
                              InvalidIntegerMessage)
         /\ before' = tracks
         /\ UNCHANGED <<tracks, tracks_id_seq, now, created_ids>>
    ELSE Rejected("deleteTrack", NonIntegerId)

NumberIdNext ==
    \/ Next
    \/ getTrackNumberId /\ ServerAlone
    \/ updateTrackNumberId /\ ServerAlone
    \/ deleteTrackNumberId /\ ServerAlone

NumberIdSpec == Init /\ [][NumberIdNext]_vars

----------------------------------------------------------------------------
\* deleteTrack statement by statement: each await gives other calls the
\* chance to run their statements.

\* The calls that have not returned or thrown yet.
Running == {c \in DOMAIN calls : calls[c].pc # "done"}

\* The router receives a deleteTrack request and calls the handler, which
\* runs up to its first await.
deleteTrackCalled ==
    \E id \in RequestIds :
        /\ Len(calls) < MaxCalls
        /\ deleteTrackInputSchema([id |-> id])
        /\ calls' = Append(calls,
                           [input |-> [id |-> id], pc |-> "select",
                            existingTrack |-> {},
                            response |-> NullResponse,
                            started_with |-> SelectById(id),
                            overlaps |-> Running])
        /\ UNCHANGED <<tracks, tracks_id_seq, now, last, before, created_ids,
                       client_vars>>

\* const existingTrack = await db.select()...; the not-found throw follows
\* without another await.
deleteTrackSelected ==
    \E c \in DOMAIN calls :
        LET id == calls[c].input.id
            existingTrack == SelectById(id)
        IN
        /\ calls[c].pc = "select"
        /\ calls' = [calls EXCEPT
                        ![c].existingTrack = existingTrack,
                        ![c].pc = IF existingTrack = {} THEN "done" ELSE "delete",
                        ![c].response = DeleteOutcome(id, existingTrack, {})]
        /\ UNCHANGED <<tracks, tracks_id_seq, now, last, before, created_ids,
                       client_vars>>

\* const result = await db.delete()...returning(); the handler then returns
\* or throws without another await.
deleteTrackDeleted ==
    \E c \in DOMAIN calls :
        LET id == calls[c].input.id
            result == DeleteReturning(id)
        IN
        /\ calls[c].pc = "delete"
        /\ tracks' = tracks \ result
        /\ calls' = [calls EXCEPT
                        ![c].pc = "done",
                        ![c].response =
                            DeleteOutcome(id, calls[c].existingTrack, result)]
        /\ UNCHANGED <<tracks_id_seq, now, last, before, created_ids,
                       client_vars>>

\* The rows the calls compete for come from createTrack requests that pass
\* validation.
createTrackAccepted ==
    \E input \in {TrackA, TrackB} :
        /\ createTrackInputSchema(input)
        /\ createTrack(input)

RaceNext ==
    \/ createTrackAccepted /\ ServerAlone
    \/ deleteTrackCalled
    \/ deleteTrackSelected
    \/ deleteTrackDeleted

RaceSpec == Init /\ [][RaceNext]_vars

----------------------------------------------------------------------------
\* The client: App, TrackList and TrackUpload.

\* String.prototype.trim, for strings padded with spaces.
RECURSIVE TrimStart(_)
TrimStart(s) ==
    IF Len(s) > 0 /\ SubSeq(s, 1, 1) = " "
    THEN TrimStart(SubSeq(s, 2, Len(s)))
    ELSE s

RECURSIVE TrimEnd(_)
TrimEnd(s) ==
    IF Len(s) > 0 /\ SubSeq(s, Len(s), Len(s)) = " "
    THEN TrimEnd(SubSeq(s, 1, Len(s) - 1))
    ELSE s

Trim(s) == TrimEnd(TrimStart(s))

\* String.prototype.includes and endsWith.
Includes(s, part) ==
    \E i \in 1 .. (Len(s) - Len(part) + 1) :
        SubSeq(s, i, i + Len(part) - 1) = part

EndsWith(s, suffix) ==
    /\ Len(s) >= Len(suffix)
    /\ SubSeq(s, Len(s) - Len(suffix) + 1, Len(s)) = suffix

\* The message of an Error, from the parts of its template literal.
RECURSIVE Join(_)
Join(parts) == IF parts = <<>> THEN "" ELSE Head(parts) \o Join(Tail(parts))

\* Files the user can pick: name, MIME type, size and text content.
TrailFile ==
    [name |-> "trail.kml", type |-> "", size |-> 2048,
     content |-> "<kml>trail</kml>"]

NotesFile ==
    [name |-> "notes.txt", type |-> "text/plain", size |-> 12,
     content |-> "buy a map"]

Files == {TrailFile, NotesFile}

\* What the user can type into the title and description fields.
TypedTitles == {"  ", " Ridge walk "}
TypedDescriptions == {"", "  ", " Steep "}

isValidFile(file) ==
    LET hasValidType ==
            \/ file.type \in {"application/gpx+xml",
                              "application/vnd.google-earth.kml+xml", "text/xml"}
            \/ file.type = "text/xml"
        hasValidExtension ==
            \E ext \in {".gpx", ".kml"} : EndsWith(file.name, ext)
    IN hasValidType \/ hasValidExtension

getFileType(file) ==
    IF EndsWith(file.name, ".gpx") THEN "gpx"
    ELSE IF EndsWith(file.name, ".kml") THEN "kml"
    ELSE "gpx"

\* file.name.replace(/\.(gpx|kml)$/i, '')
NameWithoutExt(name) ==
    IF EndsWith(name, ".gpx") \/ EndsWith(name, ".kml")
    THEN SubSeq(name, 1, Len(name) - 4)
    ELSE name

EmptyForm == [title |-> "", description |-> Null, file |-> Null]

\* A step of the client alone.
ClientAlone ==
    UNCHANGED <<tracks, tracks_id_seq, now, last, before, created_ids, calls>>

\* How many asynchronous functions of a kind were started.
Started(kind) ==
    Cardinality({i \in DOMAIN requests : requests[i].kind = kind})

\* Errors of an RPC that never got an answer from a handler: the body was
\* not the JSON the client expects, or the request could not be sent.
TransportErrors ==
    {<<"Unexpected token '<', \"<!DOCTYPE \"... is not valid JSON">>,
     <<"Failed to fetch">>}

\* error instanceof Error ? error.message : 'Unknown error'
MessageOf(response) ==
    IF response.kind = "error" THEN Join(response.message)
    ELSE IF response.kind = "validation_error" THEN "[{\"code\":\"too_small\"}]"
    ELSE "Unknown error"

\* Mutant of StubLike: every failure counts as a stub's.
StubLike_Always(message) == TRUE

\* errorMessage.includes('JSON') || .includes('pattern') || .includes('500')
StubLike(message) ==
    \/ Includes(message, "JSON")
    \/ Includes(message, "pattern")
    \/ Includes(message, "500")

Failed(response) == response.kind \in {"error", "validation_error", "unreadable"}

\* What is kept of an asynchronous function that has settled.
Settled(request) == [kind |-> request.kind, pc |-> "done"]

\* A tab's content is rendered only while the tab is active: leaving the
\* tab unmounts TrackList or TrackUpload, whose state is lost, while the
\* asynchronous functions they started run on with the old instance's
\* setters.
Leaves(tab, next) == activeTab = tab /\ next # tab

\* setActiveTab(tab), given what the step otherwise makes of the
\* components' state.
Show(tab, deleting, form, status, message, reqs) ==
    /\ activeTab' = tab
    /\ deletingTrackId' = IF Leaves("browse", tab) THEN Null ELSE deleting
    /\ formData' = IF Leaves("upload", tab) THEN EmptyForm ELSE form
    /\ uploadStatus' = IF Leaves("upload", tab) THEN "idle" ELSE status
    /\ errorMessage' = IF Leaves("upload", tab) THEN "" ELSE message
    /\ requests' =
          [i \in DOMAIN reqs |->
              IF /\ reqs[i].pc # "done"
                 /\ \/ reqs[i].kind = "handleDelete" /\ Leaves("browse", tab)
                    \/ reqs[i].kind = "handleSubmit" /\ Leaves("upload", tab)
              THEN [reqs[i] EXCEPT !.mounted = FALSE]
              ELSE reqs[i]]

\* useEffect(() => { loadTracks(); }, [loadTracks]): up to the await.
loadTracks ==
    /\ Started("loadTracks") = 0
    /\ requests' = Append(requests,
                          [kind |-> "loadTracks", pc |-> "rpc",
                           response |-> NullResponse])
    /\ UNCHANGED <<app_tracks, selectedTrack, isLoading, backendError,
                   activeTab, deletingTrackId, formData, uploadStatus,
                   errorMessage>>
    /\ ClientAlone

\* The user clicks a TabsTrigger.
onValueChange ==
    \E tab \in {"browse", "upload", "map"} :
        /\ tab # activeTab
        /\ Show(tab, deletingTrackId, formData, uploadStatus, errorMessage,
                requests)
        /\ UNCHANGED <<app_tracks, selectedTrack, isLoading, backendError>>
        /\ ClientAlone

\* The user clicks a track of TrackList or of MapView.
handleTrackSelect ==
    \E i \in DOMAIN app_tracks :
        /\ activeTab \in {"browse", "map"}
        /\ selectedTrack' = Some(app_tracks[i])
        /\ Show("map", deletingTrackId, formData, uploadStatus, errorMessage,
                requests)
        /\ UNCHANGED <<app_tracks, isLoading, backendError>>
        /\ ClientAlone

\* TrackList.handleDelete up to its await. The Delete button of a track is
\* disabled while deletingTrackId is the track's id.
handleDelete ==
    \E i \in DOMAIN app_tracks :
        LET trackId == app_tracks[i].id IN
        /\ activeTab = "browse"
        /\ deletingTrackId # Some(trackId)
        /\ Started("handleDelete") < MaxDeletes
        /\ deletingTrackId' = Some(trackId)
        /\ requests' = Append(requests,
                              [kind |-> "handleDelete", pc |-> "rpc",
                               trackId |-> trackId,
                               response |-> NullResponse,
                               selectedTrack |-> selectedTrack,
                               mounted |-> TRUE,
                               onTrackDeleted |-> FALSE])
        /\ UNCHANGED <<app_tracks, selectedTrack, isLoading, backendError,
                       activeTab, formData, uploadStatus, errorMessage>>
        /\ ClientAlone

\* if (file.size > 10 * 1024 * 1024)
MaxFileSize == 10 * 1024 * 1024

\* TrackUpload.handleFileChange, from the file input or a drop.
handleFileChange ==
    \E file \in Files :
        /\ activeTab = "upload"
        /\ IF ~isValidFile(file)
           THEN /\ errorMessage' = "Please select a valid GPX or KML file"
                /\ uploadStatus' = "error"
                /\ UNCHANGED formData
           ELSE IF file.size > MaxFileSize
           THEN /\ errorMessage' = "File size must be less than 10MB"
                /\ uploadStatus' = "error"
                /\ UNCHANGED formData
           ELSE /\ formData' =
                      [formData EXCEPT
                          !.file = Some(file),
                          !.title = IF formData.title = ""
                                    THEN NameWithoutExt(file.name)
                                    ELSE @]
                /\ uploadStatus' = "idle"
                /\ errorMessage' = ""
        /\ UNCHANGED <<app_tracks, selectedTrack, isLoading, backendError,
                       activeTab, deletingTrackId, requests>>
        /\ ClientAlone

\* onChange of the title input.
onTitleChange ==
    \E value \in TypedTitles :
        /\ activeTab = "upload"
        /\ formData' = [formData EXCEPT !.title = value]
        /\ UNCHANGED <<app_tracks, selectedTrack, isLoading, backendError,
                       activeTab, deletingTrackId, uploadStatus, errorMessage,
                       requests>>
        /\ ClientAlone

\* onChange of the description textarea: e.target.value || null
onDescriptionChange ==
    \E value \in TypedDescriptions :
        /\ activeTab = "upload"
        /\ formData' = [formData EXCEPT
                           !.description = IF value = "" THEN Null ELSE Some(value)]
        /\ UNCHANGED <<app_tracks, selectedTrack, isLoading, backendError,
                       activeTab, deletingTrackId, uploadStatus, errorMessage,
                       requests>>
        /\ ClientAlone

\* The negation of handleSubmit's guard: !formData.file || !formData.title.trim()
CanSubmit(form) == form.file # Null /\ Trim(form.title) # ""

\* formData.description?.trim() || null
TrimmedDescription(form) ==
    IF form.description = Null THEN Null
    ELSE IF Trim(form.description[1]) = "" THEN Null
    ELSE Some(Trim(form.description[1]))

\* Mutant of createTrackInput: the title is sent as typed.
createTrackInput_Untrimmed(form, trackData) ==
    [title       |-> form.title,
     description |-> TrimmedDescription(form),
     file_name   |-> form.file[1].name,
     file_type   |-> getFileType(form.file[1]),
     file_size   |-> Number(form.file[1].size),
     track_data  |-> trackData]

\* The CreateTrackInput handleSubmit builds once the file is read.
createTrackInput(form, trackData) ==
    [title       |-> Trim(form.title),
     description |-> TrimmedDescription(form),
     file_name   |-> form.file[1].name,
     file_type   |-> getFileType(form.file[1]),
     file_size   |-> Number(form.file[1].size),
     track_data  |-> trackData]

\* disabled={isLoading || !formData.file || !formData.title.trim()} of the
\* submit button: a form whose submit button is disabled is not submitted.
SubmitDisabled ==
    isLoading \/ formData.file = Null \/ Trim(formData.title) = ""

\* TrackUpload.handleSubmit up to its first await.
handleSubmit ==
    /\ activeTab = "upload"
    /\ ~SubmitDisabled
    /\ IF ~CanSubmit(formData)
       THEN /\ errorMessage' = "Please provide a title and select a file"
            /\ uploadStatus' = "error"
            /\ UNCHANGED <<isLoading, requests>>
       ELSE /\ Started("handleSubmit") < MaxSubmits
            /\ isLoading' = TRUE
            /\ uploadStatus' = "idle"
            /\ errorMessage' = ""
            /\ requests' = Append(requests,
                                  [kind |-> "handleSubmit", pc |-> "reading",
                                   formData |-> formData,
                                   input |-> Null,
                                   response |-> NullResponse,
                                   mounted |-> TRUE])
    /\ UNCHANGED <<app_tracks, selectedTrack, backendError, activeTab,
                   deletingTrackId, formData>>
    /\ ClientAlone

\* Date.now(): milliseconds since 1970, above every id of the serial column
\* and above what an integer column holds; written as an offset of the clock.
DateNowBase == 1000000
DateNow == DateNowBase + now

\* Mutant of SubmitCaught: setIsLoading(false) is missing on the error path.
SubmitCaught_StillLoading(i, message) ==
    IF StubLike(message)
    THEN /\ errorMessage' = errorMessage
         /\ requests' = [requests EXCEPT ![i].pc = "rereading"]
         /\ UNCHANGED <<app_tracks, selectedTrack, isLoading, backendError,
                        activeTab, deletingTrackId, formData, uploadStatus>>
    ELSE /\ errorMessage' =
               IF requests[i].mounted
               THEN "Failed to upload track. Please try again."
               ELSE errorMessage
         /\ uploadStatus' = IF requests[i].mounted THEN "error" ELSE uploadStatus
         /\ requests' = [requests EXCEPT ![i] = Settled(@)]
         /\ UNCHANGED <<app_tracks, selectedTrack, isLoading, backendError,
                        activeTab, deletingTrackId, formData>>

\* The catch block of handleSubmit up to its await or its end, and then the
\* finally block; the setters of an unmounted TrackUpload do nothing.
SubmitCaught(i, message) ==
    IF StubLike(message)
    THEN /\ errorMessage' =
               IF requests[i].mounted
               THEN "Backend is not fully implemented yet. Your track data has been processed locally for demonstration purposes."
               ELSE errorMessage
         /\ requests' = [requests EXCEPT ![i].pc = "rereading"]
         /\ UNCHANGED <<app_tracks, selectedTrack, isLoading, backendError,
                        activeTab, deletingTrackId, formData, uploadStatus>>
    ELSE /\ errorMessage' =
               IF requests[i].mounted
               THEN "Failed to upload track. Please try again."
               ELSE errorMessage
         /\ uploadStatus' = IF requests[i].mounted THEN "error" ELSE uploadStatus
         /\ isLoading' = FALSE
         /\ requests' = [requests EXCEPT ![i] = Settled(@)]
         /\ UNCHANGED <<app_tracks, selectedTrack, backendError, activeTab,
                        deletingTrackId, formData>>

\* The end of handleSubmit's success path and of its stub path: the form is
\* reset, App.handleTrackCreated runs, and finally setIsLoading(false).
SubmitCreated(i, track) ==
    /\ app_tracks' = <<track>> \o app_tracks
    /\ selectedTrack' = Some(track)
    /\ isLoading' = FALSE
    /\ Show("map", deletingTrackId,
            IF requests[i].mounted THEN EmptyForm ELSE formData,
            IF requests[i].mounted THEN "success" ELSE uploadStatus,
            errorMessage,
            [requests EXCEPT ![i] = Settled(@)])
    /\ UNCHANGED backendError

\* reader.onload of the first readFileContent: the input is built and the
\* createTrack mutation is sent.
readFileContent ==
    \E i \in DOMAIN requests :
        /\ requests[i].kind = "handleSubmit"
        /\ requests[i].pc = "reading"
        /\ requests' =
              [requests EXCEPT
                  ![i].pc = "rpc",
                  ![i].input =
                      Some(createTrackInput(requests[i].formData,
                                            requests[i].formData.file[1].content))]
        /\ UNCHANGED <<app_tracks, selectedTrack, isLoading, backendError,
                       activeTab, deletingTrackId, formData, uploadStatus,
                       errorMessage>>
        /\ ClientAlone

\* reader.onerror of the first readFileContent: the rejection is an event,
\* not an Error, so the catch block works with 'Unknown error'.
readFileContentFails ==
    \E i \in DOMAIN requests :
        /\ requests[i].kind = "handleSubmit"
        /\ requests[i].pc = "reading"
        /\ SubmitCaught(i, MessageOf([kind |-> "unreadable"]))
        /\ ClientAlone

\* reader.onload of the readFileContent in the catch block: the mock track.
rereadFileContent ==
    \E i \in DOMAIN requests :
        LET form == requests[i].formData IN
        /\ requests[i].kind = "handleSubmit"
        /\ requests[i].pc = "rereading"
        /\ SubmitCreated(i,
               [id          |-> DateNow,
                title       |-> Trim(form.title),
                description |-> TrimmedDescription(form),
                file_name   |-> form.file[1].name,
                file_type   |-> getFileType(form.file[1]),
                file_size   |-> form.file[1].size,
                track_data  |-> form.file[1].content,
                created_at  |-> now,
                updated_at  |-> now])
        /\ ClientAlone

\* reader.onerror of the readFileContent in the catch block: the catch
\* block throws, the finally block runs.
rereadFileContentFails ==
    \E i \in DOMAIN requests :
        /\ requests[i].kind = "handleSubmit"
        /\ requests[i].pc = "rereading"
        /\ isLoading' = FALSE
        /\ requests' = [requests EXCEPT ![i] = Settled(@)]
        /\ UNCHANGED <<app_tracks, selectedTrack, backendError, activeTab,
                       deletingTrackId, formData, uploadStatus, errorMessage>>
        /\ ClientAlone

\* The answer of the server reaches the request that waits for it.
Answered(i) ==
    /\ requests' = [requests EXCEPT ![i].pc = "responded",
                                    ![i].response = last'.response]
    /\ UNCHANGED <<calls, app_tracks, selectedTrack, isLoading, backendError,
                   activeTab, deletingTrackId, formData, uploadStatus,
                   errorMessage>>

\* trpc.getTracks.query() is served.
getTracksQuery ==
    \E i \in DOMAIN requests :
        /\ requests[i].kind = "loadTracks"
        /\ requests[i].pc = "rpc"
        /\ getTracksProcedure
        /\ Answered(i)

\* trpc.deleteTrack.mutate({ id: trackId }) is served. The id of a mock
\* track does not fit the integer column: the existence check fails.
deleteTrackMutate ==
    \E i \in DOMAIN requests :
        LET input == [id |-> requests[i].trackId] IN
        /\ requests[i].kind = "handleDelete"
        /\ requests[i].pc = "rpc"
        /\ IF ~deleteTrackInputSchema(input)
           THEN Rejected("deleteTrack", input)
           ELSE IF input.id >= DateNowBase
           THEN /\ last' = FailedRpc("deleteTrack", input, <<"select">>,
                                     OutOfRangeMessage)
                /\ before' = tracks
                /\ UNCHANGED <<tracks, tracks_id_seq, now, created_ids>>
           ELSE deleteTrack(input)
        /\ Answered(i)

\* trpc.createTrack.mutate(createTrackInput) is served.
createTrackMutate ==
    \E i \in DOMAIN requests :
        LET input == requests[i].input[1] IN
        /\ requests[i].kind = "handleSubmit"
        /\ requests[i].pc = "rpc"
        /\ IF createTrackInputSchema(input)
           THEN createTrack(input)
           ELSE Rejected("createTrack", input)
        /\ Answered(i)

\* An RPC fails without an answer of a handler.
rpcFails ==
    \E i \in DOMAIN requests : \E error \in TransportErrors :
        /\ requests[i].pc = "rpc"
        /\ requests' = [requests EXCEPT ![i].pc = "responded",
                                        ![i].response = ErrorResponse(error)]
        /\ UNCHANGED <<app_tracks, selectedTrack, isLoading, backendError,
                       activeTab, deletingTrackId, formData, uploadStatus,
                       errorMessage>>
        /\ ClientAlone

\* App.loadTracks after its await.
loadTracksSettled ==
    \E i \in DOMAIN requests :
        LET response == requests[i].response IN
        /\ requests[i].kind = "loadTracks"
        /\ requests[i].pc = "responded"
        /\ IF ~Failed(response)
           THEN /\ app_tracks' = response.tracks
                /\ backendError' = FALSE
           ELSE /\ app_tracks' = <<>>
                /\ backendError' =
                      IF StubLike(MessageOf(response)) THEN TRUE ELSE backendError
        /\ requests' = [requests EXCEPT ![i] = Settled(@)]
        /\ UNCHANGED <<selectedTrack, isLoading, activeTab, deletingTrackId,
                       formData, uploadStatus, errorMessage>>
        /\ ClientAlone

\* prev.filter(track => track.id !== trackId)
WithoutTrack(list, trackId) ==
    SelectSeq(list, LAMBDA track : track.id # trackId)

\* TrackList.handleDelete after its await: onTrackDeleted is the
\* App.handleTrackDeleted of the render in which Delete was clicked, with
\* that render's selectedTrack.
handleDeleteSettled ==
    \E i \in DOMAIN requests :
        LET r == requests[i]
            deleted == ~Failed(r.response) \/ StubLike(MessageOf(r.response))
        IN
        /\ r.kind = "handleDelete"
        /\ r.pc = "responded"
        /\ app_tracks' = IF deleted THEN WithoutTrack(app_tracks, r.trackId)
                         ELSE app_tracks
        /\ selectedTrack' =
              IF deleted /\ r.selectedTrack # Null
                 /\ r.selectedTrack[1].id = r.trackId
              THEN Null
              ELSE selectedTrack
        /\ deletingTrackId' = IF r.mounted THEN Null ELSE deletingTrackId
        /\ requests' =
              [requests EXCEPT
                  ![i] = [kind |-> r.kind, pc |-> "done", trackId |-> r.trackId,
                          response |-> r.response, onTrackDeleted |-> deleted]]
        /\ UNCHANGED <<isLoading, backendError, activeTab, formData,
                       uploadStatus, errorMessage>>
        /\ ClientAlone

\* TrackUpload.handleSubmit after the await of the mutation.
handleSubmitSettled ==
    \E i \in DOMAIN requests :
        LET response == requests[i].response IN
        /\ requests[i].kind = "handleSubmit"
        /\ requests[i].pc = "responded"
        /\ IF ~Failed(response)
           THEN SubmitCreated(i, response.track)
           ELSE SubmitCaught(i, MessageOf(response))
        /\ ClientAlone

\* The user uploads tracks: TrackUpload and App.handleTrackCreated. The
\* clock stands still: no step here reads it for more than a timestamp.
UploadNext ==
    \/ onValueChange
    \/ handleFileChange
    \/ onTitleChange
    \/ onDescriptionChange
    \/ handleSubmit
    \/ readFileContent
    \/ readFileContentFails
    \/ rereadFileContent
    \/ rereadFileContentFails
    \/ createTrackMutate
    \/ rpcFails
    \/ handleSubmitSettled

UploadSpec == Init /\ [][UploadNext]_vars

\* Every await of handleSubmit settles: the FileReader fires load or error,
\* the mutation's promise resolves or rejects, and the continuation runs.
UploadFairSpec ==
    /\ UploadSpec
    /\ WF_vars(readFileContent \/ readFileContentFails)
    /\ WF_vars(rereadFileContent \/ rereadFileContentFails)
    /\ WF_vars(createTrackMutate \/ rpcFails)
    /\ WF_vars(handleSubmitSettled)

\* A track that was uploaded before this client opened the page.
createTrackEarlier ==
    /\ requests = <<>>
    /\ tracks_id_seq = 0
    /\ createTrackInputSchema(TrackB)
    /\ createTrack(TrackB)

\* The user browses, selects and deletes tracks: App and TrackList.
ListNext ==
    \/ createTrackEarlier /\ ServerAlone
    \/ loadTracks
    \/ onValueChange
    \/ handleTrackSelect
    \/ handleDelete
    \/ getTracksQuery
    \/ deleteTrackMutate
    \/ rpcFails
    \/ loadTracksSettled
    \/ handleDeleteSettled

ListSpec == Init /\ [][ListNext]_vars

\* The user browses, selects and deletes tracks, and uploads files under
\* the title taken from their names: App, TrackList and TrackUpload. The
\* clock stands still: no step here reads it for more than a timestamp.
BrowseNext ==
    \/ createTrackEarlier /\ ServerAlone
    \/ loadTracks
    \/ onValueChange
    \/ handleTrackSelect
    \/ handleDelete
    \/ handleFileChange
    \/ handleSubmit
    \/ readFileContent
    \/ readFileContentFails
    \/ rereadFileContent
    \/ rereadFileContentFails
    \/ getTracksQuery
    \/ deleteTrackMutate
    \/ createTrackMutate
    \/ rpcFails
    \/ loadTracksSettled
    \/ handleDeleteSettled
    \/ handleSubmitSettled

BrowseSpec == Init /\ [][BrowseNext]_vars

----------------------------------------------------------------------------
\* Properties.

RowsWithId(rows, id) == {row \in rows : row.id = id}

\* The last RPC reached its handler.
Handled(procedure) ==
    /\ last.procedure = procedure
    /\ last.response.kind # "validation_error"

\* C1: for every input createTrackInputSchema accepts, createTrack returns a
\* Track whose title, description, file_name, file_type, file_size and
\* track_data equal the input, whose id is the id of no row already in the
\* store, and whose created_at equals its updated_at.
C1_CreateReturnsInput ==
    (last.procedure = "createTrack" /\ createTrackInputSchema(last.input)) =>
        /\ last.response.kind = "track"
        /\ LET track == last.response.track IN
            /\ track.title = last.input.title
            /\ track.description = last.input.description
            /\ track.file_name = last.input.file_name
            /\ track.file_type = last.input.file_type
            /\ Number(track.file_size) = last.input.file_size
            /\ track.track_data = last.input.track_data
            /\ RowsWithId(before, track.id) = {}
            /\ track.created_at = track.updated_at

\* C2: a successful createTrack adds exactly one row, that row is the
\* returned Track, readable by its id, and every row that existed before the
\* call is unchanged.
C2_CreateAddsOneRow ==
    (last.procedure = "createTrack" /\ last.response.kind = "track") =>
        /\ Cardinality(tracks) = Cardinality(before) + 1
        /\ last.response.track \notin before
        /\ SelectById(last.response.track.id) = {last.response.track}
        /\ before \subseteq tracks

C2_Witness ==
    /\ last.procedure = "createTrack"
    /\ last.response.kind = "track"
    /\ before # {}

\* C3: any two successful createTrack calls return different ids, and no two
\* rows of the store share an id.
C3_IdsUnique ==
    /\ \A i, j \in DOMAIN created_ids :
          i # j => created_ids[i] # created_ids[j]
    /\ \A r1, r2 \in tracks : r1.id = r2.id => r1 = r2

C3_Witness ==
    /\ Len(created_ids) >= 2
    /\ Cardinality(tracks) >= 2

\* C4: getTrack({id}) for an id present in the store returns a Track equal,
\* field by field, to the stored row.
C4_GetReturnsStoredRow ==
    (Handled("getTrack") /\ RowsWithId(before, last.input.id) # {}) =>
        /\ last.response.kind = "track"
        /\ \A row \in RowsWithId(before, last.input.id) :
              last.response.track = row

\* C5: getTrack({id}) for an id that has no row in the store returns null
\* and does not throw.
C5_GetMissingReturnsNull ==
    (Handled("getTrack") /\ RowsWithId(before, last.input.id) = {}) =>
        last.response.kind = "null"

\* C6: deleteTrack({id}) for an id present in the store removes exactly that
\* row, leaves every other row unchanged, returns {success: true} with a
\* message containing the id, and getTracks() afterwards does not contain
\* the id.
C6_DeleteExisting ==
    (Handled("deleteTrack") /\ RowsWithId(before, last.input.id) # {}) =>
        /\ last.response.kind = "success"
        /\ last.response.success = TRUE
        /\ \E i \in DOMAIN last.response.message :
              last.response.message[i] = ToString(last.input.id)
        /\ tracks = before \ RowsWithId(before, last.input.id)
        /\ Cardinality(tracks) = Cardinality(before) - 1
        /\ \A rows \in SelectAll :
              \A i \in DOMAIN rows : rows[i].id # last.input.id

C6_Witness ==
    /\ Handled("deleteTrack")
    /\ RowsWithId(before, last.input.id) # {}
    /\ Cardinality(before) >= 2

\* C7: deleteTrack({id}) for an id with no row in the store rejects with the
\* error 'Track with ID <id> not found', and the store is unchanged.
C7_DeleteMissing ==
    (Handled("deleteTrack") /\ RowsWithId(before, last.input.id) = {}) =>
        /\ last.response.kind = "error"
        /\ last.response.message =
              <<"Track with ID ", ToString(last.input.id), " not found">>
        /\ tracks = before

C7_Witness ==
    /\ Handled("deleteTrack")
    /\ RowsWithId(before, last.input.id) = {}
    /\ before # {}
    /\ \E i \in DOMAIN created_ids : created_ids[i] = last.input.id

\* C8: updateTrack({id, title: X}) on an existing row, description omitted,
\* returns a Track with title X and updated_at strictly greater than the
\* row's, and with description, file_name, file_type, file_size, track_data
\* and created_at equal to the row's.
C8_UpdateTitleOnly ==
    (/\ Handled("updateTrack")
     /\ Has(last.input, "title")
     /\ ~Has(last.input, "description")) =>
        \A row \in RowsWithId(before, last.input.id) :
            /\ last.response.kind = "track"
            /\ LET track == last.response.track IN
                /\ track.title = last.input.title
                /\ track.updated_at > row.updated_at
                /\ track.description = row.description
                /\ track.file_name = row.file_name
                /\ track.file_type = row.file_type
                /\ track.file_size = row.file_size
                /\ track.track_data = row.track_data
                /\ track.created_at = row.created_at

\* C9: on an existing row updateTrack leaves the description unchanged when
\* it is omitted, makes it null when it is null, and makes it the given
\* string otherwise; in all three cases an omitted title leaves the title
\* unchanged.
C9_UpdateDescriptionThreeValued ==
    Handled("updateTrack") =>
        \A row \in RowsWithId(before, last.input.id) :
            /\ last.response.kind = "track"
            /\ LET track == last.response.track IN
                /\ ~Has(last.input, "description") =>
                      track.description = row.description
                /\ Has(last.input, "description") =>
                      track.description = last.input.description
                /\ ~Has(last.input, "title") => track.title = row.title

\* C10: updateTrack({id}) with neither title nor description, on an existing
\* row, returns updated_at strictly greater than the row's and leaves title
\* and description equal to the row's.
C10_UpdateNoFields ==
    (/\ Handled("updateTrack")
     /\ ~Has(last.input, "title")
     /\ ~Has(last.input, "description")) =>
        \A row \in RowsWithId(before, last.input.id) :
            /\ last.response.kind = "track"
            /\ LET track == last.response.track IN
                /\ track.updated_at > row.updated_at
                /\ track.title = row.title
                /\ track.description = row.description

\* C11: updateTrack on an id with no row in the store returns null without
\* throwing, and creates or changes no row.
C11_UpdateMissingReturnsNull ==
    (Handled("updateTrack") /\ RowsWithId(before, last.input.id) = {}) =>
        /\ last.response.kind = "null"
        /\ tracks = before

\* C12: a successful updateTrack({id, title: T, description: D}) is
\* persisted: the row with that id, read from the store afterwards, has
\* title T and description D.
C12_UpdatePersisted ==
    (/\ Handled("updateTrack")
     /\ last.response.kind = "track"
     /\ Has(last.input, "title")
     /\ Has(last.input, "description")
     /\ RowsWithId(before, last.input.id) # {}) =>
        /\ SelectById(last.input.id) # {}
        /\ \A row \in SelectById(last.input.id) :
              /\ row.title = last.input.title
              /\ row.description = last.input.description
        /\ \A rows \in SelectAll :
              \A i \in DOMAIN rows :
                  rows[i].id = last.input.id =>
                      /\ rows[i].title = last.input.title
                      /\ rows[i].description = last.input.description

\* C13: getTracks() returns exactly the rows currently in the store, every
\* stored row once with its stored values and nothing else, and an empty
\* array when the store is empty.
C13_GetTracksReturnsStore ==
    last.procedure = "getTracks" =>
        LET rows == last.response.tracks IN
        /\ last.response.kind = "tracks"
        /\ Len(rows) = Cardinality(before)
        /\ {rows[i] : i \in DOMAIN rows} = before
        /\ before = {} => Len(rows) = 0
        /\ tracks = before

C13_Witness ==
    /\ last.procedure = "getTracks"
    /\ Cardinality(before) >= 2
    /\ \E row \in before : row.file_type = "kml"

\* The fields of a track that are fixed when it is uploaded.
SameUpload(a, b) ==
    /\ a.file_name = b.file_name
    /\ a.file_type = b.file_type
    /\ a.file_size = b.file_size
    /\ a.track_data = b.track_data
    /\ a.created_at = b.created_at

\* The Tracks the last RPC returned.
ReturnedTracks ==
    IF last.procedure \in {"createTrack", "getTrack", "updateTrack"}
       /\ last.response.kind = "track"
    THEN {last.response.track}
    ELSE IF last.procedure = "getTracks"
    THEN {last.response.tracks[i] : i \in DOMAIN last.response.tracks}
    ELSE {}

\* C14: for every id, the file_name, file_type, file_size, track_data and
\* created_at seen for it, in the store and in any handler's result, stay
\* the same from the row's creation to its deletion.
C14_UploadImmutable ==
    /\ \A old \in before : \A row \in RowsWithId(tracks, old.id) :
          SameUpload(old, row)
    /\ \A track \in ReturnedTracks :
          \A row \in RowsWithId(before \cup tracks, track.id) :
              SameUpload(track, row)

Ids(rows) == {row.id : row \in rows}

\* The ids createTrack has handed out so far.
UsedIds == {created_ids[i] : i \in DOMAIN created_ids}

\* C15: the set of ids in the store changes only by a successful
\* createTrack, which adds one new id, or a successful deleteTrack, which
\* removes one; an id that was used and is absent is never present again.
C15_IdSetChanges ==
    [][/\ Ids(tracks') # Ids(tracks) =>
            \/ /\ last'.procedure = "createTrack"
               /\ last'.response.kind = "track"
               /\ last'.response.track.id \notin Ids(tracks)
               /\ Ids(tracks') = Ids(tracks) \cup {last'.response.track.id}
            \/ /\ last'.procedure = "deleteTrack"
               /\ last'.response.kind = "success"
               /\ last'.input.id \in Ids(tracks)
               /\ Ids(tracks') = Ids(tracks) \ {last'.input.id}
       /\ \A id \in UsedIds \ Ids(tracks) : id \notin Ids(tracks')
      ]_vars

C15_Witness ==
    /\ last.procedure = "createTrack"
    /\ last.response.kind = "track"
    /\ (UsedIds \ Ids(before)) \ {last.response.track.id} # {}

\* The row holds what the request uploaded.
IsUpload(row, input) ==
    /\ row.title = input.title
    /\ row.description = input.description
    /\ row.file_name = input.file_name
    /\ row.file_type = input.file_type
    /\ Number(row.file_size) = input.file_size
    /\ row.track_data = input.track_data

\* Track A (gpx, 1024) and track B (kml, 2048) were created, in this order,
\* and both are in rows.
HoldsAandB(rows) ==
    /\ Len(created_ids) = 2
    /\ Cardinality(rows) = 2
    /\ \E a, b \in rows :
          /\ a.id = created_ids[1] /\ IsUpload(a, TrackA)
          /\ b.id = created_ids[2] /\ IsUpload(b, TrackB)

\* As above, and A has been deleted since.
HoldsOnlyB(rows) ==
    /\ Len(created_ids) = 2
    /\ Cardinality(rows) = 1
    /\ \E b \in rows : b.id = created_ids[2] /\ IsUpload(b, TrackB)

\* C16: after creating A (gpx, 1024) and B (kml, 2048) getTracks() returns
\* both; after deleting A, getTracks() returns only B and getTrack(A.id)
\* returns null.
C16_EndToEnd ==
    /\ (last.procedure = "getTracks" /\ HoldsAandB(before)) =>
          {last.response.tracks[i] : i \in DOMAIN last.response.tracks} = before
    /\ (last.procedure = "getTracks" /\ HoldsOnlyB(before)) =>
          /\ Len(last.response.tracks) = 1
          /\ last.response.tracks[1] \in before
    /\ (/\ Handled("getTrack")
        /\ HoldsOnlyB(before)
        /\ last.input.id = created_ids[1]) =>
          last.response.kind = "null"

\* A request the claim says validation refuses.
OutsideCreateConstraints(input) ==
    \/ Len(input.title) = 0
    \/ Len(input.title) > MaxTitleLen
    \/ input.file_type \notin {"gpx", "kml"}
    \/ ~(IsInt(input.file_size) /\ IsPositive(input.file_size))
    \/ Len(input.track_data) = 0

\* C17: a createTrack request is refused by validation, before the handler
\* runs and with no row inserted, whenever its title is empty or longer than
\* 200 characters, its file_type is not gpx or kml, its file_size is not a
\* positive integer or its track_data is empty; a request at the lower
\* bounds is accepted.
C17_CreateValidation ==
    last.procedure = "createTrack" =>
        /\ OutsideCreateConstraints(last.input) =>
              /\ last.response.kind = "validation_error"
              /\ tracks = before
        /\ last.input = LowerBoundTrack =>
              /\ last.response.kind = "track"
              /\ last.response.track \in tracks

C17_Witness ==
    /\ last.procedure = "createTrack"
    /\ last.response.kind = "validation_error"
    /\ Len(last.input.title) > MaxTitleLen
    /\ \E row \in before : IsUpload(row, LowerBoundTrack)

\* C18: every stored row has updated_at greater than or equal to created_at.
C18_UpdatedAtNotBeforeCreatedAt ==
    \A row \in tracks : row.updated_at >= row.created_at

C18_Witness ==
    /\ Handled("updateTrack")
    /\ \E row \in RowsWithId(tracks, last.input.id) : row.created_at > 0
    /\ now > 0

\* C19: every stored row and every Track returned by a handler has
\* file_type gpx or kml.
C19_FileTypeGpxOrKml ==
    /\ \A row \in tracks : row.file_type \in {"gpx", "kml"}
    /\ \A track \in ReturnedTracks : track.file_type \in {"gpx", "kml"}

C19_Witness ==
    /\ last.procedure = "createTrack"
    /\ last.response.kind = "track"
    /\ last.response.track.file_type = "kml"
    /\ \E row \in before : row.file_type = "gpx"

\* C20: whatever RPC calls were made, every stored row has a title of 1 to
\* 200 characters, a positive integer file_size and a non-empty track_data.
C20_RowsWithinConstraints ==
    \A row \in tracks :
        /\ Len(row.title) \in 1 .. 200
        /\ row.file_size \in Nat \ {0}
        /\ Len(row.track_data) >= 1

C20_Witness ==
    /\ Handled("updateTrack")
    /\ Has(last.input, "title")
    /\ \E row \in RowsWithId(tracks, last.input.id) :
          Len(row.title) = 1 /\ row.file_size = 1 /\ Len(row.track_data) = 1

\* C21: getTracks, getTrack and healthcheck leave the store unchanged: the
\* set of rows and every field of every row is the same after the call as
\* before it, whatever the call answered.
C21_ReadsLeaveStoreUnchanged ==
    last.procedure \in {"getTracks", "getTrack", "healthcheck"} =>
        /\ tracks = before
        /\ \A old \in before : \E row \in tracks :
              /\ row.id = old.id
              /\ row.title = old.title
              /\ row.description = old.description
              /\ SameUpload(old, row)
              /\ row.updated_at = old.updated_at

C21_Witness ==
    /\ last.procedure = "getTrack"
    /\ \E row \in RowsWithId(before, last.input.id) : row.updated_at < now
    /\ Cardinality(before) >= 2

\* C22: when a store call made by createTrack, getTracks or deleteTrack
\* fails, the handler rejects with that same error, not with a success or a
\* sentinel result, and the failed statement is not issued again.
C22_StoreErrorRethrown ==
    Has(last, "thrown") =>
        /\ last.procedure \in {"createTrack", "getTracks", "deleteTrack"}
        /\ last.response.kind = "error"
        /\ last.response.message = last.thrown
        /\ \A i, j \in DOMAIN last.statements :
              last.statements[i] = last.statements[j] => i = j
        /\ tracks = before

C22_Witness ==
    /\ Has(last, "thrown")
    /\ last.procedure = "deleteTrack"
    /\ Len(last.statements) = 2
    /\ RowsWithId(tracks, last.input.id) # {}

\* C26: a getTrack, updateTrack or deleteTrack request whose id is not an
\* integer is rejected by input validation, before the handler and the
\* store are reached.
C26_NonIntegerIdRejected ==
    (/\ last.procedure \in {"getTrack", "updateTrack", "deleteTrack"}
     /\ Has(last.input, "id_frac")
     /\ last.input.id_frac # 0) =>
        /\ last.response.kind = "validation_error"
        /\ ~Has(last, "statements")

\* Two calls on the same id ran concurrently: the later one was called
\* before the earlier one finished, the row existed when each was called,
\* and no third call is about that id.
ConcurrentDeletes(c, d) ==
    /\ c # d
    /\ calls[c].input.id = calls[d].input.id
    /\ c \in calls[d].overlaps
    /\ calls[c].started_with # {}
    /\ calls[d].started_with # {}
    /\ \A e \in DOMAIN calls :
          calls[e].input.id = calls[c].input.id => e \in {c, d}

MentionsId(message, id) == \E i \in DOMAIN message : message[i] = ToString(id)

\* C24: of two concurrent deleteTrack calls on the same existing id, under
\* every interleaving of their statements, exactly one returns
\* {success: true}, the other rejects with an error mentioning the id, and
\* the row is absent once both have finished.
C24_ConcurrentDeletesOneSucceeds ==
    \A c, d \in DOMAIN calls :
        (ConcurrentDeletes(c, d) /\ calls[c].pc = "done" /\ calls[d].pc = "done") =>
            LET id == calls[c].input.id
                succeeded == {e \in {c, d} : calls[e].response.kind = "success"}
            IN
            /\ Cardinality(succeeded) = 1
            /\ \A e \in succeeded : calls[e].response.success = TRUE
            /\ \A e \in {c, d} \ succeeded :
                  /\ calls[e].response.kind = "error"
                  /\ MentionsId(calls[e].response.message, id)
            /\ RowsWithId(tracks, id) = {}

\* Both calls passed their existence check before either deleted.
C24_Witness ==
    \E c, d \in DOMAIN calls :
        /\ ConcurrentDeletes(c, d)
        /\ calls[c].pc = "done"
        /\ calls[d].pc = "done"
        /\ calls[c].existingTrack # {}
        /\ calls[d].existingTrack # {}

\* C25: whenever deleteTrack rejects without a store failure, its error is
\* 'Track with ID <id> not found', also when other deleteTrack calls on the
\* same id run concurrently.
C25_RejectsOnlyNotFound ==
    \A c \in DOMAIN calls :
        (calls[c].pc = "done" /\ calls[c].response.kind = "error") =>
            calls[c].response.message =
                <<"Track with ID ", ToString(calls[c].input.id), " not found">>

C27_SelectedTrackInList ==
    selectedTrack # <<>> =>
        \E i \in DOMAIN app_tracks : app_tracks[i].id = selectedTrack[1].id

\* The handleDelete calls of the TrackList on screen whose deleteTrack RPC
\* is in flight.
DeletesInFlight ==
    {i \in DOMAIN requests :
        /\ requests[i].kind = "handleDelete"
        /\ requests[i].pc \in {"rpc", "responded"}
        /\ requests[i].mounted}

\* C28: while a deleteTrack RPC for track X is in flight, deletingTrackId
\* is X, so that no second deleteTrack RPC for X is issued, also when
\* deletes of other tracks start or finish in the meantime.
C28_DeletingTrackIdWhileInFlight ==
    /\ \A i \in DeletesInFlight : deletingTrackId = <<requests[i].trackId>>
    /\ \A i, j \in DeletesInFlight :
          requests[i].trackId = requests[j].trackId => i = j

\* C29: every handleSubmit that sets isLoading to true eventually sets it
\* back to false, whether the mutation succeeds, fails like a stub, fails
\* otherwise, or the file cannot be read.
C29_LoadingEnds == isLoading ~> ~isLoading

C29_Witness ==
    /\ ~isLoading
    /\ \E i \in DOMAIN requests :
          requests[i].kind = "handleSubmit" /\ requests[i].pc = "done"
    /\ errorMessage = "Failed to upload track. Please try again."
    /\ uploadStatus = "error"

\* A string with no space at either end, and at least one character.
TrimmedNonEmpty(s) ==
    /\ Len(s) >= 1
    /\ SubSeq(s, 1, 1) # " "
    /\ SubSeq(s, Len(s), Len(s)) # " "

\* The request of a handleSubmit whose createTrack RPC was issued.
SentWell(request) ==
    (request.kind = "handleSubmit" /\ request.pc \in {"rpc", "responded"}) =>
        /\ request.formData.file # <<>>
        /\ \E k \in 1 .. Len(request.formData.title) :
              SubSeq(request.formData.title, k, k) # " "
        /\ TrimmedNonEmpty(request.input[1].title)
        /\ \/ request.input[1].description = <<>>
           \/ /\ Len(request.input[1].description) = 1
              /\ TrimmedNonEmpty(request.input[1].description[1])

====
